---- MODULE Spec2Model ----
(***************************************************************************)
(* Model of the discrete-event shipping simulator:                         *)
(*   src/src/ship_management.py   ShipManager  (ship registry)             *)
(*   src/src/port_management.py   PortManager  (port registry, distance)   *)
(*   src/src/simulator_engine.py  ShippingSimulator                        *)
(*                                                                         *)
(* Time is counted in hours.  A Python dict is a sequence (ships, whose    *)
(* insertion order the engine iterates) or a function (ports, statistics). *)
(* Objects are referred to by their id.  Coordinates and speeds of the     *)
(* catalogues are chosen such that sqrt and the division distance / speed  *)
(* are exact on them.                                                      *)
(***************************************************************************)
EXTENDS Integers, Sequences, FiniteSets, TLC

\* ---------------------------------------------------------------- bounds
MaxShips  == 2    \* ships registered at the same time
MaxDemand == 2    \* rows of one cargo_demand frame
MaxTime   == 1    \* end_time and demand dates range over 0..MaxTime
MaxVolume == 2    \* cargo_volume of a demand ranges over 1..MaxVolume
MaxEvents == 4    \* pending events accepted between two setup_simulation calls
MaxPorts  == 3    \* length of the port list given to generate_cargo_demand
MaxDays   == 2    \* days given to generate_cargo_demand range over 0..MaxDays
MaxRecords == 4   \* records of one generated demand frame

\* ------------------------------------------------------------- constants
KmPerDegree == 111
HoursPerDay == 24
PoissonMean == 50

None == "None"

\* datetime.now() at construction, and the start_time of every setup_simulation:
\* the origin of the time axis
Now == 0
StartTimes == {0}

\* start_time and end_time before setup_simulation: __init__ does not set them
Unset == -1

Times   == 0 .. MaxTime
Volumes == 1 .. MaxVolume

\* ------------------------------------------------------------ catalogues
\* The ships and ports that the callers may register.  S1 is a regular ship;
\* S2 has speed 0 and S3 a negative speed, which the registry accepts as it
\* accepts any number.
ShipIds == {"S1", "S2", "S3"}
PortIds == {"P1", "P2"}

ShipCatalog ==
  [id \in ShipIds |->
     CASE id = "S1" -> [capacity |-> 2, speed |-> 111, fuel_consumption |-> 2]
       [] id = "S2" -> [capacity |-> 2, speed |-> 0,   fuel_consumption |-> 2]
       [] id = "S3" -> [capacity |-> 1, speed |-> -111, fuel_consumption |-> 1]]

PortCatalog ==
  [id \in PortIds |->
     CASE id = "P1" -> [latitude |-> 0, longitude |-> 0,
                        berths |-> {"P1_B1"}]
       [] id = "P2" -> [latitude |-> 1, longitude |-> 0,
                        berths |-> {"P2_B1", "P2_B2"}]]

\* Ship.__init__
Ship(id) ==
  [ship_id |-> id,
   name |-> id,
   capacity |-> ShipCatalog[id].capacity,
   speed |-> ShipCatalog[id].speed,
   fuel_consumption |-> ShipCatalog[id].fuel_consumption,
   status |-> "Available",
   cargo |-> 0]

\* Berth.__init__
Berth(berth_id) ==
  [berth_id |-> berth_id,
   is_occupied |-> FALSE,
   current_ship |-> None,
   queue |-> <<>>]

\* Port.__init__, and Port.add_berth for the berths of the catalogue
Port(id) ==
  [port_id |-> id,
   name |-> id,
   latitude |-> PortCatalog[id].latitude,
   longitude |-> PortCatalog[id].longitude,
   berths |-> [b \in PortCatalog[id].berths |-> Berth(b)],
   waiting_queue |-> <<>>]

\* The Ship and Port objects offered to the registries on their own: each
\* catalogue entry under its name and under another one.
ShipObjects ==
  {Ship(id) : id \in ShipIds}
    \cup {[Ship(id) EXCEPT !.name = "renamed"] : id \in ShipIds}

PortObjects ==
  {Port(id) : id \in PortIds}
    \cup {[Port(id) EXCEPT !.name = "renamed"] : id \in PortIds}

\* The (origin, destination) pairs of the demand rows: a voyage between two
\* ports and one of distance 0.
Routes == {<<"P1", "P2">>, <<"P1", "P1">>}

\* One row of a cargo_demand frame.
Demands ==
  {[date |-> t, origin_port |-> r[1], destination_port |-> r[2],
    cargo_volume |-> v] : t \in Times, r \in Routes, v \in Volumes}

\* The number of rows of a cargo_demand frame.
FrameLengths == 0 .. MaxDemand

\* The arguments of generate_cargo_demand: a list of port ids, in which an id
\* may occur more than once, and a number of days.
PortLists == UNION {[1 .. n -> PortIds] : n \in 0 .. MaxPorts}
Days == 0 .. MaxDays

\* The outcomes of the two random draws made for a record: np.random.poisson
\* (two of its possible values) and random.choice over the priorities.
PoissonDraws == {0, PoissonMean}
Priorities == {"Low", "Medium", "High"}
Draws == PoissonDraws \X Priorities

\* ----------------------------------------------------------------- state
VARIABLES
  ships,              \* ShipManager.ships: sequence of Ship records, insertion order
  ports,              \* PortManager.ports: port id -> Port record
  start_time,         \* ShippingSimulator.start_time (Unset before setup_simulation)
  end_time,           \* ShippingSimulator.end_time   (Unset before setup_simulation)
  current_time,       \* ShippingSimulator.current_time
  events,             \* ShippingSimulator.events
  simulation_results, \* ShippingSimulator.simulation_results
  pc,                 \* "idle", "scheduling" (in schedule_ship_routes), "running" (in
                      \* run_simulation), "generating" (in generate_cargo_demand)
  n_rows,             \* schedule_ship_routes: len(cargo_demand)
  cargo_demand,       \* schedule_ship_routes: the rows of the frame iterated so far
  d,                  \* schedule_ship_routes: index of the next row
  available_ships,    \* schedule_ship_routes: ids of the candidate ships
  selection,          \* <<c>> with c the arguments and the result (best_ship) of the
                      \* select_best_ship call of the current pass's last iteration, else <<>>
  snapshot,           \* history: <<c>> in schedule_ship_routes, c.ships the ids that line 54
                      \* found Available and c.events the length of events at the call,
                      \* else <<>>
  idx,                \* run_simulation: index of the next event
  simulation_log,     \* run_simulation: local log
  port_statistics,    \* run_simulation: local per-port counters
  ship_statistics,    \* run_simulation: local per-ship counters
  results,            \* <<r>> if the last call was a run_simulation that returned r, else <<>>
  raised,             \* exception raised by the last engine call, or None
  ret,                \* <<c>> if the last call was a registry call, c.op naming the
                      \* method, c.arg its argument and c.value the value returned,
                      \* else <<>>
  demand_data,        \* <<c>> in generate_cargo_demand and after it returned until the
                      \* next call, c.ports and c.days being its arguments and c.frame
                      \* the records appended, else <<>>
  processed,          \* history: the events dispatched in the current/last run, in order
  replayed,           \* history: seq numbers of the events dispatched in earlier runs
  scheduled           \* history: ids of the ships that were Scheduled when the
                      \* current/last run was called

vars ==
  <<ships, ports, start_time, end_time, current_time, events,
    simulation_results, pc, n_rows, cargo_demand, d, available_ships, selection,
    snapshot,
    idx, simulation_log, port_statistics, ship_statistics,
    results, raised, ret, demand_data, processed, replayed, scheduled>>

registryVars == <<ships, ports>>
clockVars    == <<start_time, end_time, current_time>>
scheduleVars == <<n_rows, cargo_demand, d, available_ships, selection, snapshot>>
runVars      == <<idx, simulation_log, port_statistics, ship_statistics, results>>
historyVars  == <<processed, replayed, scheduled>>
callVars     == <<ret, demand_data>>

\* --------------------------------------------------------------- helpers
Range(s) == {s[i] : i \in DOMAIN s}

\* exact integer division, for either sign of the divisor
Quot(a, b) == IF b > 0 THEN a \div b ELSE -(a \div (-b))

\* np.sqrt on the perfect squares that the catalogue produces
Sqrt(n) == CHOOSE r \in 0 .. n : r * r = n

RECURSIVE SumOver(_, _)
SumOver(f, S) ==
  IF S = {} THEN 0
  ELSE LET k == CHOOSE k \in S : TRUE IN f[k] + SumOver(f, S \ {k})

\* ------------------------------------------------------------ registries
ShipIdsOf(reg) == {reg[i].ship_id : i \in DOMAIN reg}

\* ShipManager.get_ship: the index of the ship in the registry, 0 for None
get_ship(ship_id) ==
  IF ship_id \in ShipIdsOf(ships)
  THEN CHOOSE i \in DOMAIN ships : ships[i].ship_id = ship_id
  ELSE 0

\* PortManager.get_port: TRUE iff a Port is returned
get_port(port_id) == port_id \in DOMAIN ports

\* ShipManager.get_all_ships
get_all_ships == ships

\* ShipManager.get_ships_by_status (the ships are returned by reference: ids)
get_ships_by_status(status) ==
  LET sel == SelectSeq(ships, LAMBDA s : s.status = status)
  IN  [i \in DOMAIN sel |-> sel[i].ship_id]

\* PortManager.calculate_distance
calculate_distance(port1_id, port2_id) ==
  IF ~get_port(port1_id) \/ ~get_port(port2_id) THEN 0
  ELSE LET lat_diff == ports[port1_id].latitude - ports[port2_id].latitude
           lon_diff == ports[port1_id].longitude - ports[port2_id].longitude
       IN  Sqrt(lat_diff * lat_diff + lon_diff * lon_diff) * KmPerDegree

\* the attributes of a ship that is in the registry
ShipOf(ship_id) == ships[get_ship(ship_id)]

\* assignment to the attributes of a registered Ship object
SetShip(ship_id, status, cargo) ==
  [i \in DOMAIN ships |->
     IF ships[i].ship_id = ship_id
     THEN [ships[i] EXCEPT !.status = status, !.cargo = cargo]
     ELSE ships[i]]

\* a slip: the element is left in the list
RECURSIVE Remove_Nothing(_, _)
Remove_Nothing(s, x) ==
  IF s = <<>> THEN <<>>
  ELSE <<Head(s)>> \o Remove_Nothing(Tail(s), x)

\* list.remove(x): removes the first occurrence
RECURSIVE Remove(_, _)
Remove(s, x) ==
  IF s = <<>> THEN <<>>
  ELSE IF Head(s) = x THEN Tail(s)
  ELSE <<Head(s)>> \o Remove(Tail(s), x)

\* ------------------------------------------------------------------ Init
\* ShipManager(), PortManager(), ShippingSimulator(ship_manager, port_manager)
Init ==
  /\ ships = <<>>
  /\ ports = <<>>
  /\ start_time = Unset
  /\ end_time = Unset
  /\ current_time = Now
  /\ events = <<>>
  /\ simulation_results = <<>>
  /\ pc = "idle"
  /\ n_rows = 0
  /\ cargo_demand = <<>>
  /\ d = 0
  /\ available_ships = <<>>
  /\ selection = <<>>
  /\ snapshot = <<>>
  /\ idx = 0
  /\ simulation_log = <<>>
  /\ port_statistics = <<>>
  /\ ship_statistics = <<>>
  /\ results = <<>>
  /\ raised = None
  /\ ret = <<>>
  /\ demand_data = <<>>
  /\ processed = <<>>
  /\ replayed = {}
  /\ scheduled = {}

\* ----------------------------------------------------- registry operations
\* a slip: an existing ship of the same id is replaced
add_ship_Replace(ship) ==
  /\ pc = "idle"
  /\ ship.ship_id \in ShipIdsOf(ships) \/ Len(ships) < MaxShips
  /\ IF ship.ship_id \in ShipIdsOf(ships)
     THEN /\ ships' = [i \in DOMAIN ships |->
                         IF ships[i].ship_id = ship.ship_id THEN ship
                         ELSE ships[i]]
          /\ ret' = <<[op |-> "add_ship", arg |-> ship, value |-> FALSE]>>
     ELSE /\ ships' = Append(ships, ship)
          /\ ret' = <<[op |-> "add_ship", arg |-> ship, value |-> TRUE]>>
  /\ demand_data' = <<>>
  /\ UNCHANGED <<ports, clockVars, events, simulation_results, pc,
                 scheduleVars, runVars, raised, historyVars>>

\* ShipManager.add_ship
add_ship(ship) ==
  /\ pc = "idle"
  /\ ship.ship_id \in ShipIdsOf(ships) \/ Len(ships) < MaxShips
  /\ IF ship.ship_id \in ShipIdsOf(ships)
     THEN /\ ships' = ships
          /\ ret' = <<[op |-> "add_ship", arg |-> ship, value |-> FALSE]>>
     ELSE /\ ships' = Append(ships, ship)
          /\ ret' = <<[op |-> "add_ship", arg |-> ship, value |-> TRUE]>>
  /\ demand_data' = <<>>
  /\ UNCHANGED <<ports, clockVars, events, simulation_results, pc,
                 scheduleVars, runVars, raised, historyVars>>

\* ShipManager.remove_ship
remove_ship(id) ==
  /\ pc = "idle"
  /\ ships' = SelectSeq(ships, LAMBDA s : s.ship_id # id)
  /\ ret' = <<[op |-> "remove_ship", arg |-> id,
                value |-> id \in ShipIdsOf(ships)]>>
  /\ demand_data' = <<>>
  /\ UNCHANGED <<ports, clockVars, events, simulation_results, pc,
                 scheduleVars, runVars, raised, historyVars>>

\* PortManager.add_port
add_port(port) ==
  /\ pc = "idle"
  /\ IF port.port_id \in DOMAIN ports
     THEN /\ ports' = ports
          /\ ret' = <<[op |-> "add_port", arg |-> port, value |-> FALSE]>>
     ELSE /\ ports' = [p \in DOMAIN ports \cup {port.port_id} |->
                         IF p = port.port_id THEN port ELSE ports[p]]
          /\ ret' = <<[op |-> "add_port", arg |-> port, value |-> TRUE]>>
  /\ demand_data' = <<>>
  /\ UNCHANGED <<ships, clockVars, events, simulation_results, pc,
                 scheduleVars, runVars, raised, historyVars>>

\* PortManager.remove_port
remove_port(id) ==
  /\ pc = "idle"
  /\ ports' = [p \in DOMAIN ports \ {id} |-> ports[p]]
  /\ ret' = <<[op |-> "remove_port", arg |-> id,
                value |-> id \in DOMAIN ports]>>
  /\ demand_data' = <<>>
  /\ UNCHANGED <<ships, clockVars, events, simulation_results, pc,
                 scheduleVars, runVars, raised, historyVars>>

\* ------------------------------------------------------- setup_simulation
\* a slip: the ships are made Available and unloaded as well
setup_simulation_ResetsShips(start, end) ==
  /\ pc = "idle"
  /\ start_time' = start
  /\ end_time' = end
  /\ current_time' = start
  /\ events' = <<>>
  /\ simulation_results' = <<>>
  /\ ships' = [i \in DOMAIN ships |->
                [ships[i] EXCEPT !.status = "Available", !.cargo = 0]]
  /\ raised' = None
  /\ results' = <<>>
  /\ processed' = <<>>
  /\ replayed' = {}
  /\ scheduled' = {}
  /\ ret' = <<>>
  /\ demand_data' = <<>>
  /\ UNCHANGED <<ports, pc, scheduleVars, idx, simulation_log,
                 port_statistics, ship_statistics>>

\* ShippingSimulator.setup_simulation
setup_simulation(start, end) ==
  /\ pc = "idle"
  /\ start_time' = start
  /\ end_time' = end
  /\ current_time' = start
  /\ events' = <<>>
  /\ simulation_results' = <<>>
  /\ raised' = None
  /\ results' = <<>>
  /\ processed' = <<>>
  /\ replayed' = {}
  /\ scheduled' = {}
  /\ ret' = <<>>
  /\ demand_data' = <<>>
  /\ UNCHANGED <<registryVars, pc, scheduleVars, idx, simulation_log,
                 port_statistics, ship_statistics>>

\* -------------------------------------------------- generate_cargo_demand
\* a slip: the pairs of a port with itself are kept
PortPairs_AllPairs(port_list) ==
  LET n == Len(port_list)
  IN  [k \in 1 .. n * n |->
         <<port_list[((k - 1) \div n) + 1], port_list[((k - 1) % n) + 1]>>]

\* lines 38-40: the (origin_port, dest_port) pairs that the two inner loops
\* let through, in the order of the loops
PortPairs(port_list) ==
  LET n == Len(port_list)
      all == [k \in 1 .. n * n |->
                <<port_list[((k - 1) \div n) + 1], port_list[((k - 1) % n) + 1]>>]
  IN  SelectSeq(all, LAMBDA pr : pr[1] # pr[2])

\* lines 37-40: the (day, origin_port, dest_port) of the records appended from
\* day on
RECURSIVE DemandKeys(_, _, _)
DemandKeys(port_list, day, days) ==
  IF day >= days THEN <<>>
  ELSE LET pairs == PortPairs(port_list)
       IN  [k \in DOMAIN pairs |->
              [day |-> day, origin_port |-> pairs[k][1],
               destination_port |-> pairs[k][2]]]
             \o DemandKeys(port_list, day + 1, days)

\* lines 41-49: the record appended for key, draw being the outcome of the
\* two draws made for it
demand_record(key, draw) ==
  [date |-> start_time + HoursPerDay * key.day,
   origin_port |-> key.origin_port,
   destination_port |-> key.destination_port,
   cargo_volume |-> draw[1],
   priority |-> draw[2]]

\* a slip: the generator starts from an empty pending list
GenerateStart_ClearsEvents(port_list, days) ==
  /\ pc = "idle"
  /\ Len(DemandKeys(port_list, 0, days)) <= MaxRecords
  /\ IF start_time = Unset /\ DemandKeys(port_list, 0, days) # <<>>
     THEN /\ raised' = "TypeError"
          /\ demand_data' = <<>>
          /\ pc' = "idle"
     ELSE /\ raised' = None
          /\ demand_data' = <<[ports |-> port_list, days |-> days,
                                frame |-> <<>>]>>
          /\ pc' = "generating"
  /\ ret' = <<>>
  /\ results' = <<>>
  /\ events' = <<>>
  /\ UNCHANGED <<registryVars, clockVars, simulation_results,
                 scheduleVars, idx, simulation_log, port_statistics,
                 ship_statistics, historyVars>>

\* line 36: the call.  Before setup_simulation start_time is None, and the
\* date of the first record cannot be computed.
GenerateStart(port_list, days) ==
  /\ pc = "idle"
  /\ Len(DemandKeys(port_list, 0, days)) <= MaxRecords
  /\ IF start_time = Unset /\ DemandKeys(port_list, 0, days) # <<>>
     THEN /\ raised' = "TypeError"
          /\ demand_data' = <<>>
          /\ pc' = "idle"
     ELSE /\ raised' = None
          /\ demand_data' = <<[ports |-> port_list, days |-> days,
                                frame |-> <<>>]>>
          /\ pc' = "generating"
  /\ ret' = <<>>
  /\ results' = <<>>
  /\ UNCHANGED <<registryVars, clockVars, events, simulation_results,
                 scheduleVars, idx, simulation_log, port_statistics,
                 ship_statistics, historyVars>>

\* lines 37-49: one pass of the innermost loop that appends a record
GenerateStep(draw) ==
  /\ pc = "generating"
  /\ LET call == demand_data[1]
         keys == DemandKeys(call.ports, 0, call.days)
         k == Len(call.frame) + 1
     IN  /\ k <= Len(keys)
         /\ demand_data' =
              <<[call EXCEPT !.frame = Append(@, demand_record(keys[k], draw))]>>
  /\ UNCHANGED <<registryVars, clockVars, events, simulation_results, pc,
                 scheduleVars, runVars, raised, ret, historyVars>>

\* line 50: the loops are done, the frame is returned
GenerateReturn ==
  /\ pc = "generating"
  /\ Len(demand_data[1].frame) =
       Len(DemandKeys(demand_data[1].ports, 0, demand_data[1].days))
  /\ pc' = "idle"
  /\ UNCHANGED <<registryVars, clockVars, events, simulation_results,
                 scheduleVars, runVars, raised, historyVars, callVars>>

\* ------------------------------------------------------ select_best_ship
\* a slip: a later element with an equal key replaces the current minimum
RECURSIVE MinByFuel_LastMin(_, _)
MinByFuel_LastMin(best, rest) ==
  IF rest = <<>> THEN best
  ELSE IF ShipOf(Head(rest)).fuel_consumption <= ShipOf(best).fuel_consumption
       THEN MinByFuel_LastMin(Head(rest), Tail(rest))
       ELSE MinByFuel_LastMin(best, Tail(rest))

\* builtin min(list, key=...): the first element with the least key
RECURSIVE MinByFuel(_, _)
MinByFuel(best, rest) ==
  IF rest = <<>> THEN best
  ELSE IF ShipOf(Head(rest)).fuel_consumption < ShipOf(best).fuel_consumption
       THEN MinByFuel(Head(rest), Tail(rest))
       ELSE MinByFuel(best, Tail(rest))

\* a slip: the capacity filter is left out
select_best_ship_NoFilter(shipList, demand) ==
  IF shipList = <<>> THEN None
  ELSE MinByFuel(Head(shipList), Tail(shipList))

\* a slip: without a suitable ship, the first candidate is returned
select_best_ship_Fallback(shipList, demand) ==
  LET suitable_ships ==
        SelectSeq(shipList, LAMBDA s : ShipOf(s).capacity >= demand.cargo_volume)
  IN  IF suitable_ships = <<>> THEN Head(shipList)
      ELSE MinByFuel(Head(suitable_ships), Tail(suitable_ships))

\* ShippingSimulator.select_best_ship(ships, demand): a ship id or None
select_best_ship(shipList, demand) ==
  LET suitable_ships ==
        SelectSeq(shipList, LAMBDA s : ShipOf(s).capacity >= demand.cargo_volume)
  IN  IF suitable_ships = <<>> THEN None
      ELSE MinByFuel(Head(suitable_ships), Tail(suitable_ships))

\* ----------------------------------------------------------- assign_route
\* a slip: the destination is not looked up
ports_found_OriginOnly(demand) ==
  get_port(demand.origin_port)

\* line 81: both endpoints are registered
ports_found(demand) ==
  get_port(demand.origin_port) /\ get_port(demand.destination_port)

route_distance(demand) ==
  calculate_distance(demand.origin_port, demand.destination_port)

\* lines 88-92: distance / ship.speed is inf or nan for speed 0 (distance is a
\* numpy float), and timedelta(hours=inf | nan) raises
assign_route_raises(ship_id, demand) ==
  ports_found(demand) /\ ShipOf(ship_id).speed = 0

assign_route_error(demand) ==
  IF route_distance(demand) = 0 THEN "ValueError" ELSE "OverflowError"

\* line 88, for a speed other than 0
travel_time(ship_id, demand) ==
  Quot(route_distance(demand), ShipOf(ship_id).speed)

\* lines 95-101; seq is the history number of the event
departure_event(ship_id, demand, seq) ==
  [timestamp |-> demand.date,
   event_type |-> "DEPARTURE",
   ship_id |-> ship_id,
   port_id |-> demand.origin_port,
   details |-> [cargo_volume |-> demand.cargo_volume,
                destination |-> demand.destination_port],
   seq |-> seq]

\* a slip: the travel time is not added
arrival_event_NoTravel(ship_id, demand, seq) ==
  [timestamp |-> demand.date,
   event_type |-> "ARRIVAL",
   ship_id |-> ship_id,
   port_id |-> demand.destination_port,
   details |-> [cargo_volume |-> demand.cargo_volume,
                travel_distance |-> route_distance(demand)],
   seq |-> seq]

\* lines 104-110
arrival_event(ship_id, demand, seq) ==
  [timestamp |-> demand.date + travel_time(ship_id, demand),
   event_type |-> "ARRIVAL",
   ship_id |-> ship_id,
   port_id |-> demand.destination_port,
   details |-> [cargo_volume |-> demand.cargo_volume,
                travel_distance |-> route_distance(demand)],
   seq |-> seq]

\* ShippingSimulator.assign_route(ship, demand), when it does not raise
assign_route(ship_id, demand) ==
  IF ~ports_found(demand)
  THEN UNCHANGED <<events, ships>>
  ELSE /\ events' = events \o <<departure_event(ship_id, demand, Len(events) + 1),
                                arrival_event(ship_id, demand, Len(events) + 2)>>
       /\ ships' = SetShip(ship_id, "Scheduled", ShipOf(ship_id).cargo)

\* --------------------------------------------------- schedule_ship_routes
\* line 54: the call, with a frame of n rows, and the snapshot of the Available
\* ships.  The rows are drawn as the loop reaches them.
ScheduleStart(n) ==
  /\ pc = "idle"
  /\ start_time # Unset
  /\ Len(events) + 2 * n <= MaxEvents
  /\ pc' = "scheduling"
  /\ n_rows' = n
  /\ cargo_demand' = <<>>
  /\ d' = 1
  /\ available_ships' = get_ships_by_status("Available")
  /\ selection' = <<>>
  /\ snapshot' = <<[ships |-> get_ships_by_status("Available"),
                    events |-> Len(events)]>>
  /\ raised' = None
  /\ results' = <<>>
  /\ ret' = <<>>
  /\ demand_data' = <<>>
  /\ UNCHANGED <<registryVars, clockVars, events, simulation_results, idx,
                 simulation_log, port_statistics, ship_statistics, historyVars>>

\* lines 56-64: one iteration of the loop over the rows, demand being row d
ScheduleStep(demand) ==
  /\ pc = "scheduling"
  /\ d <= n_rows
  /\ available_ships # <<>>
  /\ LET best == select_best_ship(available_ships, demand)
     IN  /\ selection' = <<[ships |-> available_ships, demand |-> demand,
                             best_ship |-> best]>>
         /\ IF best = None
            THEN /\ d' = d + 1
                 /\ cargo_demand' = Append(cargo_demand, demand)
                 /\ UNCHANGED <<events, ships, available_ships, pc, n_rows,
                                raised, snapshot>>
            ELSE IF assign_route_raises(best, demand)
            THEN /\ raised' = assign_route_error(demand)
                 /\ pc' = "idle"
                 /\ n_rows' = 0
                 /\ cargo_demand' = <<>>
                 /\ d' = 0
                 /\ available_ships' = <<>>
                 /\ snapshot' = <<>>
                 /\ UNCHANGED <<events, ships>>
            ELSE /\ assign_route(best, demand)
                 /\ available_ships' = Remove(available_ships, best)
                 /\ d' = d + 1
                 /\ cargo_demand' = Append(cargo_demand, demand)
                 /\ UNCHANGED <<pc, n_rows, raised, snapshot>>
  /\ UNCHANGED <<ports, clockVars, simulation_results, runVars, historyVars,
                 callVars>>

\* lines 56-58: the rows are exhausted, or no candidate is left
ScheduleReturn ==
  /\ pc = "scheduling"
  /\ d > n_rows \/ available_ships = <<>>
  /\ pc' = "idle"
  /\ n_rows' = 0
  /\ cargo_demand' = <<>>
  /\ d' = 0
  /\ available_ships' = <<>>
  /\ selection' = <<>>
  /\ snapshot' = <<>>
  /\ UNCHANGED <<registryVars, clockVars, events, simulation_results,
                 runVars, raised, historyVars, callVars>>

\* --------------------------------------------------------- run_simulation
\* a slip: the order of the key comparison is inverted
RECURSIVE InsertByTimestamp_Descending(_, _)
InsertByTimestamp_Descending(e, s) ==
  IF s = <<>> THEN <<e>>
  ELSE IF e.timestamp > Head(s).timestamp THEN <<e>> \o s
  ELSE <<Head(s)>> \o InsertByTimestamp_Descending(e, Tail(s))

\* a slip: an element is put in front of the elements with an equal key
RECURSIVE InsertByTimestamp_Unstable(_, _)
InsertByTimestamp_Unstable(e, s) ==
  IF s = <<>> THEN <<e>>
  ELSE IF e.timestamp <= Head(s).timestamp THEN <<e>> \o s
  ELSE <<Head(s)>> \o InsertByTimestamp_Unstable(e, Tail(s))

\* list.sort(key=timestamp): stable, ascending
RECURSIVE InsertByTimestamp(_, _)
InsertByTimestamp(e, s) ==
  IF s = <<>> THEN <<e>>
  ELSE IF e.timestamp < Head(s).timestamp THEN <<e>> \o s
  ELSE <<Head(s)>> \o InsertByTimestamp(e, Tail(s))

\* a slip: the pending list is replayed as it was appended
SortByTimestamp_Unsorted(s) == s

RECURSIVE SortByTimestamp(_)
SortByTimestamp(s) ==
  IF s = <<>> THEN <<>>
  ELSE InsertByTimestamp(s[Len(s)], SortByTimestamp(SubSeq(s, 1, Len(s) - 1)))

\* lines 118-124: sort, and the fresh log and counters
RunStart ==
  /\ pc = "idle"
  /\ start_time # Unset
  /\ pc' = "running"
  /\ events' = SortByTimestamp(events)
  /\ simulation_log' = <<>>
  /\ port_statistics' =
       [p \in DOMAIN ports |-> [ships_handled |-> 0, cargo_handled |-> 0,
                                waiting_times |-> <<>>]]
  /\ ship_statistics' =
       [s \in ShipIdsOf(get_all_ships) |->
          [total_distance |-> 0, fuel_consumed |-> 0, cargo_delivered |-> 0]]
  /\ idx' = 1
  /\ results' = <<>>
  /\ raised' = None
  /\ replayed' = replayed \cup {e.seq : e \in Range(processed)}
  /\ processed' = <<>>
  /\ scheduled' = Range(get_ships_by_status("Scheduled"))
  /\ ret' = <<>>
  /\ demand_data' = <<>>
  /\ UNCHANGED <<registryVars, clockVars, simulation_results, scheduleVars>>

\* a slip: the event at end_time is cut off as well
Dispatches_Exclusive(i) == i <= Len(events) /\ ~(events[i].timestamp >= end_time)

\* line 127: the loop goes on to dispatch events[idx]
Dispatches(i) == i <= Len(events) /\ ~(events[i].timestamp > end_time)

\* ShippingSimulator.handle_departure
handle_departure(event) ==
  IF get_ship(event.ship_id) # 0
  THEN /\ ships' = SetShip(event.ship_id, "In Transit", event.details.cargo_volume)
       /\ simulation_log' = Append(simulation_log,
            [timestamp |-> event.timestamp, event |-> "DEPARTURE",
             ship_id |-> event.ship_id, port_id |-> event.port_id,
             cargo_volume |-> event.details.cargo_volume])
       /\ UNCHANGED <<ports, port_statistics, ship_statistics>>
  ELSE UNCHANGED <<ships, ports, simulation_log, port_statistics,
                   ship_statistics>>

\* a slip: the fuel rate of the ship is left out
fuel_consumed_of_NoRate(event) ==
  Quot(event.details.travel_distance, ShipOf(event.ship_id).speed)

\* line 177
fuel_consumed_of(event) ==
  Quot(event.details.travel_distance, ShipOf(event.ship_id).speed)
    * ShipOf(event.ship_id).fuel_consumption

\* a slip: the arriving ship is not counted
port_stats_update_NoCount(port_stats, event) ==
  [port_stats EXCEPT
     ![event.port_id].cargo_handled = @ + event.details.cargo_volume]

\* lines 170-171
port_stats_update(port_stats, event) ==
  [port_stats EXCEPT
     ![event.port_id].ships_handled = @ + 1,
     ![event.port_id].cargo_handled = @ + event.details.cargo_volume]

\* a slip: the cargo is not credited to the ship
ship_stats_update_NoCargo(ship_stats, event) ==
  [ship_stats EXCEPT
     ![event.ship_id].total_distance = @ + event.details.travel_distance,
     ![event.ship_id].fuel_consumed = @ + fuel_consumed_of(event)]

\* lines 173-178
ship_stats_update(ship_stats, event) ==
  [ship_stats EXCEPT
     ![event.ship_id].total_distance = @ + event.details.travel_distance,
     ![event.ship_id].cargo_delivered = @ + event.details.cargo_volume,
     ![event.ship_id].fuel_consumed = @ + fuel_consumed_of(event)]

\* a slip: the arriving ship takes the berths of the port
handle_arrival_TakesBerth(event) ==
  IF get_ship(event.ship_id) # 0 /\ get_port(event.port_id)
  THEN /\ port_statistics' = port_stats_update(port_statistics, event)
       /\ ship_statistics' = ship_stats_update(ship_statistics, event)
       /\ ships' = SetShip(event.ship_id, "Available", 0)
       /\ ports' =
            [ports EXCEPT ![event.port_id].berths =
               [b \in DOMAIN @ |->
                  [@[b] EXCEPT !.is_occupied = TRUE,
                               !.current_ship = event.ship_id]]]
       /\ simulation_log' = Append(simulation_log,
            [timestamp |-> event.timestamp, event |-> "ARRIVAL",
             ship_id |-> event.ship_id, port_id |-> event.port_id,
             cargo_volume |-> event.details.cargo_volume,
             fuel_consumed |-> fuel_consumed_of(event)])
  ELSE UNCHANGED <<ships, ports, simulation_log, port_statistics,
                   ship_statistics>>

\* ShippingSimulator.handle_arrival
handle_arrival(event) ==
  IF get_ship(event.ship_id) # 0 /\ get_port(event.port_id)
  THEN /\ port_statistics' = port_stats_update(port_statistics, event)
       /\ ship_statistics' = ship_stats_update(ship_statistics, event)
       /\ ships' = SetShip(event.ship_id, "Available", 0)
       /\ simulation_log' = Append(simulation_log,
            [timestamp |-> event.timestamp, event |-> "ARRIVAL",
             ship_id |-> event.ship_id, port_id |-> event.port_id,
             cargo_volume |-> event.details.cargo_volume,
             fuel_consumed |-> fuel_consumed_of(event)])
       /\ UNCHANGED ports
  ELSE UNCHANGED <<ships, ports, simulation_log, port_statistics,
                   ship_statistics>>

\* lines 126-136: one iteration of the loop over the sorted events
ProcessEvent ==
  /\ pc = "running"
  /\ Dispatches(idx)
  /\ LET event == events[idx]
     IN  /\ current_time' = event.timestamp
         /\ processed' = Append(processed, event)
         /\ IF event.event_type = "DEPARTURE" THEN handle_departure(event)
            ELSE handle_arrival(event)
  /\ idx' = idx + 1
  /\ UNCHANGED <<start_time, end_time, events, simulation_results, pc,
                 scheduleVars, results, raised, replayed, scheduled, callVars>>

\* a slip: the quotient is formed whatever the total fuel is
generate_summary_NoGuard(port_stats, ship_stats) ==
  LET total_cargo ==
        SumOver([p \in DOMAIN port_stats |-> port_stats[p].cargo_handled],
                DOMAIN port_stats)
      total_fuel ==
        SumOver([s \in DOMAIN ship_stats |-> ship_stats[s].fuel_consumed],
                DOMAIN ship_stats)
      total_distance ==
        SumOver([s \in DOMAIN ship_stats |-> ship_stats[s].total_distance],
                DOMAIN ship_stats)
  IN  [total_cargo_handled |-> total_cargo,
       total_fuel_consumed |-> total_fuel,
       total_distance_traveled |-> total_distance,
       average_fuel_efficiency |-> <<total_cargo, total_fuel>>,
       simulation_period |-> (end_time - start_time) \div 24]

\* ShippingSimulator.generate_summary
generate_summary(port_stats, ship_stats) ==
  LET total_cargo ==
        SumOver([p \in DOMAIN port_stats |-> port_stats[p].cargo_handled],
                DOMAIN port_stats)
      total_fuel ==
        SumOver([s \in DOMAIN ship_stats |-> ship_stats[s].fuel_consumed],
                DOMAIN ship_stats)
      total_distance ==
        SumOver([s \in DOMAIN ship_stats |-> ship_stats[s].total_distance],
                DOMAIN ship_stats)
  IN  [total_cargo_handled |-> total_cargo,
       total_fuel_consumed |-> total_fuel,
       total_distance_traveled |-> total_distance,
       \* the quotient total_cargo / total_fuel as <<numerator, denominator>>
       average_fuel_efficiency |->
         IF total_fuel > 0 THEN <<total_cargo, total_fuel>> ELSE <<0, 1>>,
       simulation_period |-> (end_time - start_time) \div 24]

\* lines 126-128 and 139-146: the loop ends, the results are returned
RunReturn ==
  /\ pc = "running"
  /\ ~Dispatches(idx)
  /\ pc' = "idle"
  /\ results' = <<[simulation_log |-> simulation_log,
                   port_statistics |-> port_statistics,
                   ship_statistics |-> ship_statistics,
                   summary |-> generate_summary(port_statistics, ship_statistics)]>>
  /\ idx' = 0
  /\ simulation_log' = <<>>
  /\ port_statistics' = <<>>
  /\ ship_statistics' = <<>>
  /\ UNCHANGED <<registryVars, clockVars, events, simulation_results,
                 scheduleVars, raised, historyVars, callVars>>

\* --------------------------------------------------------- specification
\* The registries are filled before the first setup_simulation; afterwards the
\* engine is driven by setup_simulation, schedule_ship_routes, run_simulation.
Register ==
  /\ start_time = Unset
  /\ \/ \E id \in ShipIds : add_ship(Ship(id))
     \/ \E id \in ShipIds : remove_ship(id)
     \/ \E id \in PortIds : add_port(Port(id))
     \/ \E id \in PortIds : remove_port(id)

Setup == \E start \in StartTimes, end \in Times : setup_simulation(start, end)

Schedule ==
  \/ \E n \in FrameLengths : ScheduleStart(n)
  \/ \E demand \in Demands : ScheduleStep(demand)
  \/ ScheduleReturn

Run == RunStart \/ ProcessEvent \/ RunReturn

Next == Register \/ Setup \/ Schedule \/ Run

Spec == Init /\ [][Next]_vars

\* The same, with callers that also remove ships and ports while events are
\* pending.
RegisterLate ==
  /\ events # <<>>
  /\ \/ \E id \in ShipIds : remove_ship(id)
     \/ \E id \in PortIds : remove_port(id)

NextReg == Next \/ RegisterLate

SpecReg == Init /\ [][NextReg]_vars

\* the ids of the ships that callers replace
RefitIds == {"S1"}

\* Ship(id, ..., capacity=1, ...): another Ship object with a catalogue id
Refit(id) == [Ship(id) EXCEPT !.capacity = 1]

\* The same as Spec, with callers that replace a ship by another Ship object
\* of the same id (remove_ship, then add_ship) while events are pending.
ReplaceLate ==
  /\ events # <<>>
  /\ \/ \E id \in RefitIds : remove_ship(id)
     \/ \E id \in RefitIds : add_ship(Refit(id))

NextRefit == Next \/ ReplaceLate

SpecRefit == Init /\ [][NextRefit]_vars

\* The registries on their own, with objects that differ in more than the id.
NextCrud ==
  \/ \E ship \in ShipObjects : add_ship(ship)
  \/ \E id \in ShipIds : remove_ship(id)
  \/ \E port \in PortObjects : add_port(port)
  \/ \E id \in PortIds : remove_port(id)

SpecCrud == Init /\ [][NextCrud]_vars

\* The demand generator, called before and after setup_simulation.
Generate ==
  \/ \E port_list \in PortLists, days \in Days : GenerateStart(port_list, days)
  \/ \E draw \in Draws : GenerateStep(draw)
  \/ GenerateReturn

NextDemand == Setup \/ Generate

SpecDemand == Init /\ [][NextDemand]_vars

\* The engine together with the demand generator, the latter called with one
\* port list and one pair of outcomes of the draws.
GenerateBrief ==
  \/ \E port_list \in {<<"P1", "P2">>}, days \in {1} :
       GenerateStart(port_list, days)
  \/ \E draw \in {<<0, "Low">>, <<PoissonMean, "High">>} : GenerateStep(draw)
  \/ GenerateReturn

NextAll == Next \/ GenerateBrief

SpecAll == Init /\ [][NextAll]_vars

\* ------------------------------------------------------------ properties
Returned == results # <<>>     \* the last call was a run_simulation that returned

IsDispatch == pc = "running" /\ Dispatches(idx)

\* C1: after setup_simulation, every change of a ship's status is
\* Available -> Scheduled made by assign_route, Scheduled -> In Transit made by
\* a processed DEPARTURE, or In Transit -> Available made by a processed
\* ARRIVAL; no other change of status occurs.
C1_StatusLifecycle ==
  [][start_time # Unset =>
       \A i \in DOMAIN ships :
         LET old == ships[i].status
             new == ships'[i].status
         IN  old # new =>
               \/ old = "Available" /\ new = "Scheduled" /\ pc = "scheduling"
               \/ /\ old = "Scheduled" /\ new = "In Transit"
                  /\ IsDispatch /\ events[idx].event_type = "DEPARTURE"
               \/ /\ old = "In Transit" /\ new = "Available"
                  /\ IsDispatch /\ events[idx].event_type = "ARRIVAL"]_vars

\* C2: dispatching an ARRIVAL whose ship is registered and not In Transit
\* changes neither the ships, nor the statistics, nor the log.
C2_ArrivalNotInTransitIsNoOp ==
  [][(/\ IsDispatch
      /\ events[idx].event_type = "ARRIVAL"
      /\ get_ship(events[idx].ship_id) # 0
      /\ ShipOf(events[idx].ship_id).status # "In Transit")
     => UNCHANGED <<ships, port_statistics, ship_statistics, simulation_log>>]_vars

\* C3: within one run_simulation the cursor current_time takes the timestamps
\* of the dispatched events, and each is >= every one dispatched before it.
C3_MonotonicTime ==
  /\ \A i, j \in DOMAIN processed :
       i < j => processed[i].timestamp <= processed[j].timestamp
  /\ processed # <<>> => current_time = processed[Len(processed)].timestamp

\* the sort changed the order of two dispatched events
C3_Witness ==
  \E i, j \in DOMAIN processed :
    /\ i < j
    /\ processed[i].seq > processed[j].seq
    /\ processed[i].timestamp < processed[j].timestamp

\* C4: an event is dispatched in a run iff its timestamp is <= end_time.
C4_EndTimeInclusive ==
  /\ \A i \in DOMAIN processed : processed[i].timestamp <= end_time
  /\ Returned =>
       \A i \in DOMAIN events :
         events[i].timestamp <= end_time =>
           \E j \in DOMAIN processed : processed[j].seq = events[i].seq

\* a finished run that dispatched an event at end_time and left a later one
C4_Witness ==
  /\ Returned
  /\ \E j \in DOMAIN processed : processed[j].timestamp = end_time
  /\ \E i \in DOMAIN events : events[i].timestamp > end_time

\* C5: in the results of every run_simulation, the cargo_handled of all ports
\* sums to the cargo_delivered of all ships.
C5_CargoBalance ==
  Returned =>
    LET ps == results[1].port_statistics
        ss == results[1].ship_statistics
    IN  SumOver([p \in DOMAIN ps |-> ps[p].cargo_handled], DOMAIN ps)
          = SumOver([s \in DOMAIN ss |-> ss[s].cargo_delivered], DOMAIN ss)

\* a finished run in which two ships delivered cargo
C5_Witness ==
  /\ Returned
  /\ \E s, t \in DOMAIN results[1].ship_statistics :
       /\ s # t
       /\ results[1].ship_statistics[s].cargo_delivered > 0
       /\ results[1].ship_statistics[t].cargo_delivered > 0

\* C6 as stated: over all the runs made after one setup_simulation, no event
\* is dispatched out of timestamp order and no event is dispatched twice.
C6_NeverTwiceAcrossRuns ==
  /\ \A i, j \in DOMAIN processed :
       i < j => /\ processed[i].timestamp <= processed[j].timestamp
                /\ processed[i].seq # processed[j].seq
  /\ \A i \in DOMAIN processed : processed[i].seq \notin replayed

\* C6 amended: within each run_simulation no event is dispatched out of
\* timestamp order and no event is dispatched twice.
C6_OncePerRun ==
  \A i, j \in DOMAIN processed :
    i < j => /\ processed[i].timestamp <= processed[j].timestamp
             /\ processed[i].seq # processed[j].seq

\* a later run dispatches, in order, events that an earlier run dispatched
C6_Witness ==
  /\ Len(processed) >= 2
  /\ \A i \in DOMAIN processed : processed[i].seq \in replayed
  /\ processed[1].seq > processed[2].seq

\* the candidates of a select_best_ship call that have the capacity
Suitable(c) ==
  {s \in Range(c.ships) : ShipOf(s).capacity >= c.demand.cargo_volume}

\* C7: select_best_ship returns None iff no candidate has capacity >= the
\* cargo_volume; otherwise a candidate of sufficient capacity whose
\* fuel_consumption is the least among the candidates of sufficient capacity.
C7_CapacityThenFuel ==
  \A k \in DOMAIN selection :
    LET c == selection[k]
    IN  /\ c.best_ship = None <=> Suitable(c) = {}
        /\ c.best_ship # None =>
             /\ c.best_ship \in Suitable(c)
             /\ \A s \in Suitable(c) :
                  ShipOf(c.best_ship).fuel_consumption <= ShipOf(s).fuel_consumption

\* a candidate of lower fuel_consumption was passed over for its capacity
C7_Witness ==
  \E k \in DOMAIN selection :
    LET c == selection[k]
    IN  /\ c.best_ship # None
        /\ \E s \in Range(c.ships) :
             /\ ShipOf(s).capacity < c.demand.cargo_volume
             /\ ShipOf(s).fuel_consumption < ShipOf(c.best_ship).fuel_consumption

\* the order of the ship ids as strings
ShipIdOrder == <<"S1", "S2", "S3">>
IdRank(id) == CHOOSE i \in DOMAIN ShipIdOrder : ShipIdOrder[i] = id

\* the candidates that tie with the result of a select_best_ship call
Ties(c) ==
  {s \in Suitable(c) :
     ShipOf(s).fuel_consumption = ShipOf(c.best_ship).fuel_consumption}

\* C8 as stated: among the candidates of sufficient capacity and least
\* fuel_consumption, select_best_ship returns the one of the lowest ship id.
C8_LowestIdOnTie ==
  \A k \in DOMAIN selection :
    LET c == selection[k]
    IN  c.best_ship # None =>
          \A s \in Ties(c) : IdRank(c.best_ship) <= IdRank(s)

\* C8 amended: among the candidates of sufficient capacity and least
\* fuel_consumption, select_best_ship returns the one registered first.
C8_FirstRegisteredOnTie ==
  \A k \in DOMAIN selection :
    LET c == selection[k]
    IN  c.best_ship # None =>
          \A s \in Ties(c) : get_ship(c.best_ship) <= get_ship(s)

\* a tie that the ship of the higher id won
C8_Witness ==
  \E k \in DOMAIN selection :
    LET c == selection[k]
    IN  /\ c.best_ship # None
        /\ \E s \in Ties(c) : IdRank(s) < IdRank(c.best_ship)

\* the loop of schedule_ship_routes makes an iteration, for row d
IsIteration ==
  /\ pc = "scheduling"
  /\ d <= n_rows
  /\ available_ships # <<>>
  /\ Len(cargo_demand') = d

\* no candidate of the iteration has the capacity for its row
NoCandidateFits ==
  /\ IsIteration
  /\ \A i \in DOMAIN available_ships :
       ShipOf(available_ships[i]).capacity < cargo_demand'[d].cargo_volume

\* C9: when no candidate has the capacity, select_best_ship returns None and
\* the iteration appends no event, changes no ship, keeps the candidates, and
\* the pass goes on with the next row.
C9_DemandDropped ==
  [][NoCandidateFits =>
       /\ selection'[1].best_ship = None
       /\ events' = events
       /\ ships' = ships
       /\ available_ships' = available_ships
       /\ raised' = raised
       /\ pc' = "scheduling"
       /\ d' = d + 1]_vars

\* row 1 was dropped for lack of capacity and row 2 was then assigned
C9_Witness ==
  /\ pc = "scheduling"
  /\ d = 3
  /\ selection[1].best_ship # None
  /\ \A s \in Range(selection[1].ships) :
       ShipOf(s).capacity < cargo_demand[1].cargo_volume
  /\ Len(events) >= 2
  /\ events[Len(events)].ship_id = selection[1].best_ship
  /\ ShipOf(selection[1].best_ship).status = "Scheduled"

\* C10: when both endpoint ports are registered, assign_route sets the status
\* of the selected ship to Scheduled and appends exactly two events for it: a
\* DEPARTURE at the origin, then an ARRIVAL at the destination, both with the
\* cargo_volume of the demand.
C10_AssignRouteAppendsPair ==
  [][(/\ pc = "scheduling"
      /\ d <= n_rows
      /\ available_ships # <<>>
      /\ selection' # <<>>
      /\ selection'[1].best_ship # None
      /\ ports_found(selection'[1].demand))
     => LET demand == selection'[1].demand
            ship   == select_best_ship(available_ships, demand)
            n      == Len(events)
        IN  /\ ships'[get_ship(ship)].status = "Scheduled"
            /\ Len(events') = n + 2
            /\ SubSeq(events', 1, n) = events
            /\ events'[n + 1].event_type = "DEPARTURE"
            /\ events'[n + 1].ship_id = ship
            /\ events'[n + 1].port_id = demand.origin_port
            /\ events'[n + 1].details.cargo_volume = demand.cargo_volume
            /\ events'[n + 2].event_type = "ARRIVAL"
            /\ events'[n + 2].ship_id = ship
            /\ events'[n + 2].port_id = demand.destination_port
            /\ events'[n + 2].details.cargo_volume = demand.cargo_volume]_vars

\* C11: when the origin or the destination of the demand is not a registered
\* port, assign_route ends the planning of that demand without effect: no event
\* is appended, no exception is raised, and the status and cargo of the selected
\* ship and every other piece of simulator state stay as they were.
C11_UnknownPortNoEffect ==
  [][(/\ pc = "scheduling"
      /\ d <= n_rows
      /\ available_ships # <<>>
      /\ selection' # <<>>
      /\ selection'[1].best_ship # None
      /\ \/ ~get_port(selection'[1].demand.origin_port)
         \/ ~get_port(selection'[1].demand.destination_port))
     => /\ events' = events
        /\ ships' = ships
        /\ ports' = ports
        /\ raised' = None
        /\ UNCHANGED <<clockVars, simulation_results, runVars, historyVars>>]_vars

\* a ship was selected for a demand whose destination is not registered while
\* its origin is, and the pass has gone on to the next row
C11_Witness ==
  /\ pc = "scheduling"
  /\ d = 2
  /\ selection # <<>>
  /\ selection[1].best_ship # None
  /\ get_port(selection[1].demand.origin_port)
  /\ ~get_port(selection[1].demand.destination_port)
  /\ events = <<>>
  /\ ShipOf(selection[1].best_ship).status = "Available"

\* C12: an event dispatched by run_simulation whose ship id or port id is not
\* in the registries is skipped: the ships, the statistics and the log stay as
\* they were, and the replay goes on with the next event.
C12_AbsentIdSkipped ==
  [][(/\ IsDispatch
      /\ \/ get_ship(events[idx].ship_id) = 0
         \/ ~get_port(events[idx].port_id))
     => /\ UNCHANGED <<ships, port_statistics, ship_statistics, simulation_log>>
        /\ pc' = "running"
        /\ idx' = idx + 1]_vars

\* the seq numbers of the events dispatched by some run_simulation since
\* the last setup_simulation
Dispatched == replayed \cup {e.seq : e \in Range(processed)}

\* the DEPARTUREs of the pairs of a ship of which an event is still undispatched
\* (assign_route appends a pair as the events seq, seq + 1)
OutstandingPairs(ship_id) ==
  {e \in Range(events) :
     /\ e.ship_id = ship_id
     /\ e.event_type = "DEPARTURE"
     /\ ~({e.seq, e.seq + 1} \subseteq Dispatched)}

\* C13: in every state each ship has at most one (DEPARTURE, ARRIVAL) pair in
\* the pending list that has not been processed completely.
C13_AtMostOnePair ==
  \A i \in DOMAIN ships :
    Cardinality(OutstandingPairs(ships[i].ship_id)) <= 1

\* the events of a ship and a type that no run_simulation has dispatched since
\* the last setup_simulation
Undispatched(ship_id, event_type) ==
  {e \in Range(events) :
     /\ e.ship_id = ship_id
     /\ e.event_type = event_type
     /\ e.seq \notin Dispatched}

\* C14: between the calls, an Available ship has no unprocessed event in the
\* pending list, a Scheduled ship has an unprocessed DEPARTURE and a ship In
\* Transit has an unprocessed ARRIVAL.
C14_StatusMatchesPending ==
  pc = "idle" =>
    \A i \in DOMAIN ships :
      LET s == ships[i].ship_id
      IN  /\ ships[i].status = "Available" =>
               Undispatched(s, "DEPARTURE") \cup Undispatched(s, "ARRIVAL") = {}
          /\ ships[i].status = "Scheduled" => Undispatched(s, "DEPARTURE") # {}
          /\ ships[i].status = "In Transit" => Undispatched(s, "ARRIVAL") # {}

\* C15: add_ship and add_port with an id that is already registered return
\* False and leave the registry as it is, the registered object included; with
\* a new id they insert the object and return True.
C15_DuplicateIdRefused ==
  [][/\ \A ship \in ShipObjects :
          add_ship(ship) =>
            IF ship.ship_id \in ShipIdsOf(ships)
            THEN ret'[1].value = FALSE /\ ships' = ships
            ELSE /\ ret'[1].value = TRUE
                 /\ ships'[get_ship(ship.ship_id)'] = ship
                 /\ SubSeq(ships', 1, Len(ships)) = ships
                 /\ Len(ships') = Len(ships) + 1
     /\ \A port \in PortObjects :
          add_port(port) =>
            IF port.port_id \in DOMAIN ports
            THEN ret'[1].value = FALSE /\ ports' = ports
            ELSE /\ ret'[1].value = TRUE
                 /\ DOMAIN ports' = DOMAIN ports \cup {port.port_id}
                 /\ ports'[port.port_id] = port
                 /\ \A p \in DOMAIN ports : ports'[p] = ports[p]]_vars

\* an add_ship was refused whose argument differs from the registered ship of
\* the same id
C15_Witness ==
  /\ ret # <<>>
  /\ ret[1].op = "add_ship"
  /\ ret[1].value = FALSE
  /\ get_ship(ret[1].arg.ship_id) # 0
  /\ ShipOf(ret[1].arg.ship_id) # ret[1].arg

\* C16: after setup_simulation no schedule_ship_routes and no run_simulation
\* call raises, whatever the fleet (a ship of speed 0 included), the ports and
\* the demand rows are.
C16_NoCallRaises == raised = None

\* C17: events of equal timestamp are dispatched in the order in which
\* assign_route appended them; so the DEPARTURE of a voyage of travel time zero
\* is dispatched before its ARRIVAL.
C17_TiesInAppendOrder ==
  \A i, j \in DOMAIN processed :
    (i < j /\ processed[i].timestamp = processed[j].timestamp)
      => processed[i].seq < processed[j].seq

\* a run dispatched two voyages of travel time zero, the one appended last
\* first, each DEPARTURE right before its ARRIVAL
C17_Witness ==
  /\ Returned
  /\ Len(processed) = 4
  /\ processed[1].seq = 3
  /\ processed[2].seq = 4
  /\ processed[1].timestamp = processed[2].timestamp
  /\ processed[3].seq = 1
  /\ processed[4].seq = 2
  /\ processed[3].timestamp = processed[4].timestamp
  /\ processed[1].event_type = "DEPARTURE"
  /\ processed[2].event_type = "ARRIVAL"

\* C18: the summary reports average_fuel_efficiency 0 whenever the total fuel
\* consumed is 0, and total_cargo_handled / total_fuel_consumed otherwise.
C18_ZeroOnlyWhenNoFuel ==
  Returned =>
    LET summary == results[1].summary
    IN  summary.average_fuel_efficiency =
          IF summary.total_fuel_consumed = 0 THEN <<0, 1>>
          ELSE <<summary.total_cargo_handled, summary.total_fuel_consumed>>

\* C18, amended: the summary reports average_fuel_efficiency 0 whenever the
\* total fuel consumed is not positive, and total_cargo_handled /
\* total_fuel_consumed when it is positive.
C18_ZeroUnlessFuelPositive ==
  Returned =>
    LET summary == results[1].summary
    IN  summary.average_fuel_efficiency =
          IF summary.total_fuel_consumed <= 0 THEN <<0, 1>>
          ELSE <<summary.total_cargo_handled, summary.total_fuel_consumed>>

\* a run that delivered cargo with a negative total of fuel reported 0
C18_Witness ==
  /\ Returned
  /\ results[1].summary.total_cargo_handled > 0
  /\ results[1].summary.total_fuel_consumed < 0
  /\ results[1].summary.average_fuel_efficiency = <<0, 1>>

\* the port list has no repeated id
Distinct(port_list) ==
  \A i, j \in DOMAIN port_list : port_list[i] = port_list[j] => i = j

\* C19: for a list of n distinct port ids, generate_cargo_demand(ports, days)
\* returns days * n * (n - 1) records: exactly one for every day in 0..days-1
\* and every ordered pair of different ports, none with the origin equal to the
\* destination, in ascending order of the day, each dated start_time + day.
C19_OneRecordPerDayAndPair ==
  (pc = "idle" /\ demand_data # <<>> /\ Distinct(demand_data[1].ports)) =>
    LET port_list == demand_data[1].ports
        days == demand_data[1].days
        frame == demand_data[1].frame
        n == Len(port_list)
    IN  /\ Len(frame) = days * n * (n - 1)
        /\ \A day \in 0 .. days - 1 :
             \A o, dst \in Range(port_list) :
               o # dst =>
                 Cardinality({k \in DOMAIN frame :
                                /\ frame[k].date = start_time + HoursPerDay * day
                                /\ frame[k].origin_port = o
                                /\ frame[k].destination_port = dst}) = 1
        /\ \A k \in DOMAIN frame :
             frame[k].origin_port # frame[k].destination_port
        /\ \A k, l \in DOMAIN frame : k < l => frame[k].date <= frame[l].date

\* a frame of two days for two ports: four records
C19_Witness ==
  /\ pc = "idle"
  /\ demand_data # <<>>
  /\ demand_data[1].ports = <<"P2", "P1">>
  /\ demand_data[1].days = 2
  /\ Len(demand_data[1].frame) = 4
  /\ demand_data[1].frame[1].origin_port = "P2"
  /\ demand_data[1].frame[3].date = start_time + HoursPerDay

\* C21: of every pair that assign_route appends, the DEPARTURE is dated with
\* the date of the demand and the ARRIVAL with that date plus distance(origin,
\* destination) / speed hours; for a ship of positive speed the ARRIVAL is
\* never dated before the DEPARTURE.
C21_PairTimestamps ==
  [][(/\ pc = "scheduling"
      /\ selection' # <<>>
      /\ Len(events') = Len(events) + 2)
     => LET demand == selection'[1].demand
            ship   == ShipOf(selection'[1].best_ship)
            dep    == events'[Len(events) + 1]
            arr    == events'[Len(events) + 2]
        IN  /\ dep.timestamp = demand.date
            /\ (arr.timestamp - dep.timestamp) * ship.speed =
                 calculate_distance(demand.origin_port, demand.destination_port)
            /\ ship.speed > 0 => arr.timestamp >= dep.timestamp]_vars

\* a pair was appended for a voyage of one hour between two ports
C21_Witness ==
  /\ pc = "scheduling"
  /\ Len(events) >= 2
  /\ events[Len(events)].event_type = "ARRIVAL"
  /\ events[Len(events) - 1].event_type = "DEPARTURE"
  /\ events[Len(events)].details.travel_distance = KmPerDegree
  /\ events[Len(events)].timestamp = events[Len(events) - 1].timestamp + 1

\* a step of generate_cargo_demand: the call (which raises before
\* setup_simulation), a pass of its loop, or its return
IsGenerateStep ==
  \/ pc = "generating"
  \/ pc' = "generating"
  \/ pc = "idle" /\ raised' = "TypeError" /\ ret' = <<>>

\* an iteration of schedule_ship_routes in which select_best_ship is the only
\* call made: it returned None
IsSelectOnlyStep ==
  /\ pc = "scheduling"
  /\ selection' # <<>>
  /\ selection'[1].best_ship = None
  /\ d' = d + 1

\* C22: select_best_ship and generate_cargo_demand change no simulator state:
\* the ships with their status and cargo, the two registries and the pending
\* list are after the call what they were before it.
C22_SelectAndGenerateArePure ==
  [][(IsGenerateStep \/ IsSelectOnlyStep)
     => UNCHANGED <<ships, ports, events>>]_vars

\* generate_cargo_demand returned a frame while events were pending and a ship
\* was In Transit with cargo
C22_Witness ==
  /\ pc = "idle"
  /\ demand_data # <<>>
  /\ Len(demand_data[1].frame) = 2
  /\ events # <<>>
  /\ \E i \in DOMAIN ships :
       ships[i].status = "In Transit" /\ ships[i].cargo > 0

\* the positions in the dispatch order of the run of the ARRIVALs of a ship
ArrivalsOf(ship_id) ==
  {i \in DOMAIN processed :
     processed[i].event_type = "ARRIVAL" /\ processed[i].ship_id = ship_id}

\* C23: in the results of run_simulation the total_distance, cargo_delivered
\* and fuel_consumed of every ship are the sums, over the ARRIVALs of the ship
\* processed in this run, of travel_distance, of cargo_volume and of
\* (travel_distance / speed) * fuel_consumption; they are 0 for a ship without
\* a processed ARRIVAL.
C23_ShipStatisticsAreSums ==
  Returned =>
    LET stats == results[1].ship_statistics
    IN  /\ DOMAIN stats = ShipIdsOf(ships)
        /\ \A s \in DOMAIN stats :
             LET A == ArrivalsOf(s)
                 ship == ShipOf(s)
             IN  /\ stats[s].total_distance =
                      SumOver([i \in A |-> processed[i].details.travel_distance], A)
                 /\ stats[s].cargo_delivered =
                      SumOver([i \in A |-> processed[i].details.cargo_volume], A)
                 /\ stats[s].fuel_consumed * ship.speed =
                      SumOver([i \in A |-> processed[i].details.travel_distance], A)
                        * ship.fuel_consumption
                 /\ A = {} =>
                      /\ stats[s].total_distance = 0
                      /\ stats[s].cargo_delivered = 0
                      /\ stats[s].fuel_consumed = 0

\* a run processed two ARRIVALs of one ship, one of them of a voyage between
\* two ports, next to a ship without any
C23_Witness ==
  /\ Returned
  /\ \E s, t \in DOMAIN results[1].ship_statistics :
       /\ Cardinality(ArrivalsOf(s)) = 2
       /\ results[1].ship_statistics[s].total_distance = KmPerDegree
       /\ results[1].ship_statistics[s].fuel_consumed > 0
       /\ results[1].ship_statistics[s].cargo_delivered >= 2
       /\ ArrivalsOf(t) = {}

\* a step of setup_simulation, generate_cargo_demand, schedule_ship_routes or
\* run_simulation: any step but a call of a registry
IsSimulatorStep == ret' = <<>>

\* C24: no step of setup_simulation, generate_cargo_demand,
\* schedule_ship_routes or run_simulation changes the occupancy, the occupying
\* ship or the queue of a berth, or the waiting queue of a port; no berth is
\* ever occupied, so none is occupied by more than one ship.
C24_BerthsUntouched ==
  [][IsSimulatorStep =>
       /\ DOMAIN ports' = DOMAIN ports
       /\ \A p \in DOMAIN ports :
            /\ ports'[p].berths = ports[p].berths
            /\ ports'[p].waiting_queue = ports[p].waiting_queue
            /\ \A b \in DOMAIN ports'[p].berths :
                 /\ ~ports'[p].berths[b].is_occupied
                 /\ ports'[p].berths[b].current_ship = None]_vars

\* a run handled the ARRIVAL of a ship at a port with two berths
C24_Witness ==
  /\ Returned
  /\ "P2" \in DOMAIN results[1].port_statistics
  /\ results[1].port_statistics["P2"].ships_handled > 0
  /\ "P2" \in DOMAIN ports
  /\ Cardinality(DOMAIN ports["P2"].berths) = 2

\* the events appended since the call of schedule_ship_routes
Appended == SubSeq(events, snapshot[1].events + 1, Len(events))

\* the events of a type that the pass appended for a ship
AppendedFor(ship_id, type) ==
  {i \in DOMAIN Appended : /\ Appended[i].ship_id = ship_id
                           /\ Appended[i].event_type = type}

\* C25: in a pass of schedule_ship_routes the rows are taken once each, in
\* list order; for every ship the pass appends at most one DEPARTURE and at
\* most one ARRIVAL, and only for ships that were Available when the pass
\* began; the pairs appended are no more than the rows taken.
C25_OnePairPerCandidate ==
  pc = "scheduling" =>
    /\ Len(cargo_demand) = d - 1
    /\ d - 1 <= n_rows
    /\ Len(Appended) <= 2 * (d - 1)
    /\ \A i \in DOMAIN Appended : Appended[i].ship_id \in Range(snapshot[1].ships)
    /\ \A s \in Range(snapshot[1].ships) :
         /\ Cardinality(AppendedFor(s, "DEPARTURE")) <= 1
         /\ Cardinality(AppendedFor(s, "ARRIVAL")) <= 1
         /\ Cardinality(AppendedFor(s, "DEPARTURE"))
              = Cardinality(AppendedFor(s, "ARRIVAL"))
    /\ \A s \in ShipIdsOf(ships) \ Range(snapshot[1].ships) :
         ShipOf(s).status # "Available"

\* a pass over two rows gave a route to each of two ships, next to a ship that
\* was not Available when it began
C25_Witness ==
  /\ pc = "scheduling"
  /\ d = 3
  /\ Len(snapshot[1].ships) = 2
  /\ Len(Appended) = 4
  /\ \A s \in Range(snapshot[1].ships) : Cardinality(AppendedFor(s, "DEPARTURE")) = 1

\* C26: when the ship selected for a row gets no events because an endpoint
\* of the row is not registered, the ship stays Available and is still among
\* the candidates for the later rows of the pass.
C26_FailedPlanningKeepsCandidate ==
  [][(/\ IsIteration
      /\ selection' # <<>>
      /\ selection'[1].best_ship # None
      /\ ~ports_found(selection'[1].demand)
      /\ pc' = "scheduling")
     => /\ events' = events
        /\ \E i \in DOMAIN ships' :
             /\ ships'[i].ship_id = selection'[1].best_ship
             /\ ships'[i].status = "Available"
        /\ selection'[1].best_ship \in Range(available_ships')]_vars

\* every pending event is within the end of the simulation
AllWithinEnd == \A i \in DOMAIN events : events[i].timestamp <= end_time

\* every registered ship has a positive speed
AllSpeedsPositive == \A i \in DOMAIN ships : ships[i].speed > 0

\* C27: when every pending event has a timestamp <= end_time and every ship a
\* positive speed (no ship or port being removed after setup_simulation),
\* run_simulation returns without an exception after at most one iteration
\* per event, and every ship that was Scheduled when it was called is
\* Available with cargo 0.
C27_ScheduledShipsComeBack ==
  /\ (pc = "running" /\ AllSpeedsPositive) => idx <= Len(events) + 1 /\ raised = None
  /\ (Returned /\ AllWithinEnd /\ AllSpeedsPositive) =>
       /\ processed = events
       /\ \A s \in scheduled :
            /\ s \in ShipIdsOf(ships)
            /\ ShipOf(s).status = "Available"
            /\ ShipOf(s).cargo = 0

\* C28: in every reachable state the cargo of a ship is non-zero only while its
\* status is In Transit, and it is never more than the capacity of the ship.
C28_CargoOnlyInTransit ==
  \A i \in DOMAIN ships :
    /\ ships[i].cargo # 0 => ships[i].status = "In Transit"
    /\ ships[i].cargo <= ships[i].capacity

\* the positions in a simulation log of the ARRIVAL records of a port
ArrivalRecordsAt(log, port_id) ==
  {i \in DOMAIN log : log[i].event = "ARRIVAL" /\ log[i].port_id = port_id}

\* C29: in the results of run_simulation, for every port ships_handled is the
\* number of the ARRIVAL records of the port in the simulation log and
\* cargo_handled the sum of their cargo_volume; every ARRIVAL record of a ship
\* of positive speed comes after a DEPARTURE record of the same ship in the log.
C29_PortStatisticsMatchLog ==
  Returned =>
    LET log   == results[1].simulation_log
        stats == results[1].port_statistics
    IN  /\ \A i \in DOMAIN log :
             log[i].event = "ARRIVAL" => log[i].port_id \in DOMAIN stats
        /\ \A p \in DOMAIN stats :
             LET A == ArrivalRecordsAt(log, p)
             IN  /\ stats[p].ships_handled = Cardinality(A)
                 /\ stats[p].cargo_handled =
                      SumOver([i \in A |-> log[i].cargo_volume], A)
        /\ \A i \in DOMAIN log :
             (/\ log[i].event = "ARRIVAL"
              /\ log[i].ship_id \in ShipIdsOf(ships)
              /\ ShipOf(log[i].ship_id).speed > 0)
             => \E j \in 1 .. i - 1 :
                  /\ log[j].event = "DEPARTURE"
                  /\ log[j].ship_id = log[i].ship_id

\* a run logged two ARRIVALs at one port, one of them of a ship of positive
\* speed, and none at another port
C29_Witness ==
  /\ Returned
  /\ \E p, q \in DOMAIN results[1].port_statistics :
       /\ results[1].port_statistics[p].ships_handled = 2
       /\ results[1].port_statistics[p].cargo_handled >= 3
       /\ results[1].port_statistics[q].ships_handled = 0
       /\ \E i \in ArrivalRecordsAt(results[1].simulation_log, p) :
            ShipOf(results[1].simulation_log[i].ship_id).speed > 0

\* a step of setup_simulation: the only call that returns at once, is not a
\* call of a registry and leaves start_time set
IsSetupStep ==
  /\ pc = "idle"
  /\ pc' = "idle"
  /\ ret' = <<>>
  /\ start_time' # Unset

\* C30: setup_simulation empties the list of pending events and the list of
\* results and sets current_time to the new start_time; it leaves the two
\* registries, and with them the status and the cargo of every ship, as they
\* were.
C30_SetupFrame ==
  [][IsSetupStep =>
       /\ events' = <<>>
       /\ simulation_results' = <<>>
       /\ current_time' = start_time'
       /\ ports' = ports
       /\ ships' = ships]_vars

\* setup_simulation was called after a run that had left a ship In Transit
\* with its cargo: the events are gone, the ship is as it was
C30_Witness ==
  /\ pc = "idle"
  /\ start_time # Unset
  /\ events = <<>>
  /\ processed = <<>>
  /\ replayed = {}
  /\ scheduled = {}
  /\ current_time = start_time
  /\ \E i \in DOMAIN ships : ships[i].status = "In Transit" /\ ships[i].cargo > 0

====
